---- MODULE Spec2Model ----
(***************************************************************************)
(* Model of the critter category reconciliation of macdive-site-exporter: *)
(* commands/critters.rs, diff_critter_categories.                         *)
(*                                                                         *)
(* A run loads the catalog (critters and critter categories), resolves a  *)
(* group name for every species, computes the pool of extraneous          *)
(* categories and then walks the critters in catalog order, printing for  *)
(* each of them the corrective action.  The printed actions are kept in   *)
(* `plan`, the logged problems in `diagnostics`.                          *)
(***************************************************************************)
EXTENDS Integers, Sequences, FiniteSets, TLC

\* ------------------------------------------------------------------ bounds
MaxCritters == 2
MaxCategories == 2

\* ------------------------------------------------------------ value spaces
NoId == 0
NoName == "<null>"
LookupError == "LookupError"
GroupError == "GroupError"

Species == {"X", "Y"}
CategoryNames == {"Fish", "fish", "Coral"}
GroupNames == {"Fish", "Mollusk", "Sponge"}
TaxonAnswers == GroupNames \cup {LookupError, GroupError}

NoCategory == [id |-> NoId, name |-> NoName]

\* change_case::lower_case: the normalized key of a name
LowerCase(s) ==
    CASE s = "Fish" -> "fish"
      [] s = "Coral" -> "coral"
      [] s = "Mollusk" -> "mollusk"
      [] s = "Sponge" -> "sponge"
      [] OTHER -> s

\* ----------------------------------------------------------------- inputs
CategoryRows ==
    UNION { { [k \in 1..n |-> [id |-> k, name |-> f[k]]] :
                f \in [1..n -> CategoryNames \cup {NoName}] } : n \in 0..MaxCategories }

CritterRows(ncat) ==
    UNION { { [k \in 1..n |-> [id |-> k, species |-> f[k].species, category |-> f[k].category]] :
                f \in [1..n -> [species : Species \cup {NoName}, category : 0..ncat]] } :
            n \in 0..MaxCritters }

VARIABLES
    db_categories,        \* ZCRITTERCATEGORY rows, in the order the query returns them
    db_critters,          \* ZCRITTER rows, in the order the query returns them
    taxa,                 \* species -> group name, or the error of the lookup / the classification
    pc,                   \* "start", "loop", "done", "panicked"
    critters,             \* the loaded critters
    current_categories,   \* key -> category
    critter_groups,       \* species -> group name
    extraneous_categories,\* the pool, a Vec
    category_index,       \* category id -> key
    i,                    \* position of the for loop
    plan,                 \* the actions printed so far
    diagnostics,          \* the problems logged so far
    observed,             \* critter id -> what the match of that critter saw
    pool0,                \* the pool as computed before the loop
    reported,             \* the pool as printed at the end
    run,                  \* 1, or 2 in a second run
    first,                \* the result of the first run, kept for the second
    cmd,                  \* the command whose lookups are followed, or "none"
    rpc,                  \* where that command is: "idle", "start", "priming", "loop",
                          \* "grouping", "grouped", "returned_ok", "returned_err"
    priming,              \* "not_started", "started", "joined"
    cache,                \* species -> "absent", "pending", or the answer kept for the run
    calls,                \* species -> number of external lookups issued
    queue,                \* the names handed to cache_species and not yet taken by a task
    workers,              \* task -> what the task is doing
    ri,                   \* position of the command's loop over the critters
    reads,                \* the get_taxon_by_name calls made per critter, in order
    warnings,             \* ids of the critters whose lookup failure was logged
    changesets            \* ids of the critters a changeset was computed for

vars == <<db_categories, db_critters, taxa, pc, critters, current_categories,
          critter_groups, extraneous_categories, category_index, i, plan,
          diagnostics, observed, pool0, reported, run, first,
          cmd, rpc, priming, cache, calls, queue, workers, ri, reads, warnings,
          changesets>>

inputs == <<db_categories, db_critters, taxa>>

\* What diff_critter_categories computes with
reconciler == <<pc, critters, current_categories, critter_groups, extraneous_categories,
                category_index, i, plan, diagnostics, observed, pool0, reported, run,
                first>>

\* What the lookups of a command go through
resolver == <<cmd, rpc, priming, cache, calls, queue, workers, ri, reads, warnings,
              changesets>>

EmptyMap == [x \in {} |-> NoCategory]
KeyMap == [x \in {} |-> ""]
NoFirst == [plan |-> <<>>, pool |-> <<>>]

\* HashMap::insert
Put(m, k, v) == [x \in (DOMAIN m) \cup {k} |-> IF x = k THEN v ELSE m[x]]

\* HashMap::remove
Remove(m, k) == [x \in (DOMAIN m) \ {k} |-> m[x]]

\* All orders in which a collection can hand out the members of a set
Orders(S) == { s \in [1..Cardinality(S) -> S] : \A a, b \in DOMAIN s : s[a] = s[b] => a = b }

\* The species are interchangeable, so are the two group names no category
\* has, and the answer for a species that no critter has is never asked for:
\* one catalog of each kind is enough
Canonical(rows, answers) ==
    /\ \A s \in Species :
          (\A k \in DOMAIN rows : rows[k].species # s) => answers[s] = LookupError
    /\ \A k \in DOMAIN rows :
          rows[k].species = "Y" => \E j \in 1..(k - 1) : rows[j].species = "X"
    /\ answers["X"] # "Sponge"
    /\ answers["Y"] = "Sponge" => answers["X"] = "Mollusk"

\* The size of the pool of lookup tasks of a priming pass
MaxWorkers == 2
Workers == 1..MaxWorkers

Commands == {"diff_critters", "diff_critter_categories"}

Idle == [st |-> "idle", s |-> NoName]
ColdCache == [s \in Species |-> "absent"]
NoCalls == [s \in Species |-> 0]

\* The lookups of a command that has not been started
ResolverAt(c, at) ==
    /\ cmd = c
    /\ rpc = at
    /\ priming = "not_started"
    /\ cache = ColdCache
    /\ calls = NoCalls
    /\ queue = <<>>
    /\ workers = [w \in Workers |-> Idle]
    /\ ri = 1
    /\ reads = <<>>
    /\ warnings = <<>>
    /\ changesets = <<>>

\* The ids are labels, and the order of the rows matters only among the rows of
\* one key, where the later row replaces the earlier one; a row without a name
\* is left out wherever it is. The catalogs whose rows are grouped by key, the
\* rows without a name last, stand for the others
Rank(name) ==
    CASE name = NoName -> 3
      [] LowerCase(name) = "fish" -> 1
      [] OTHER -> 2

ByKey(rows) ==
    \A k \in 1..(Len(rows) - 1) : Rank(rows[k].name) <= Rank(rows[k + 1].name)

Init ==
    /\ db_categories \in CategoryRows
    /\ ByKey(db_categories)
    /\ db_critters \in CritterRows(Len(db_categories))
    /\ taxa \in [Species -> TaxonAnswers]
    /\ Canonical(db_critters, taxa)
    /\ ResolverAt("none", "idle")
    /\ pc = "start"
    /\ critters = <<>>
    /\ current_categories = EmptyMap
    /\ critter_groups = KeyMap
    /\ extraneous_categories = <<>>
    /\ category_index = <<>>
    /\ i = 1
    /\ plan = <<>>
    /\ diagnostics = <<>>
    /\ observed = <<>>
    /\ pool0 = <<>>
    /\ reported = <<>>
    /\ run = 1
    /\ first = NoFirst

\* ------------------------------------------------------- before the loop

\* lines 109-119: the rows with a name, keyed by the lower-cased name; a later
\* row replaces an earlier one with the same key
RECURSIVE CollectCategories(_, _)
CollectCategories(rows, n) ==
    IF n = 0 THEN EmptyMap
    ELSE LET m == CollectCategories(rows, n - 1)
             c == rows[n]
         IN IF c.name = NoName THEN m ELSE Put(m, LowerCase(c.name), c)

\* lines 121-138: one entry per species whose taxon and group name resolve
CritterGroups(rows) ==
    [s \in { rows[k].species : k \in { j \in DOMAIN rows :
                /\ rows[j].species # NoName
                /\ taxa[rows[j].species] \in GroupNames } } |-> taxa[s]]

\* lines 128-133: failed taxon lookups are logged, one line per critter
RECURSIVE LookupFailures(_, _)
LookupFailures(rows, n) ==
    IF n = 0 THEN <<>>
    ELSE LET d == LookupFailures(rows, n - 1)
             c == rows[n]
         IN IF c.species # NoName /\ taxa[c.species] = LookupError
            THEN Append(d, [kind |-> "TaxonLookupFailed", species |-> c.species])
            ELSE d

\* CurrentNames taken from the names of the categories instead of their keys
CurrentNamesUnnormalized(m) == { m[k].name : k \in DOMAIN m }

\* lines 140-143
CurrentNames(m) == { LowerCase(k) : k \in DOMAIN m }

\* lines 145-148
DesiredNames(g) == { LowerCase(g[s]) : s \in DOMAIN g }

\* ExtraneousOrders without the difference: every current name is in the pool
ExtraneousOrdersAll(m, g) == Orders(CurrentNames(m))

\* lines 150-153: the difference of two hash sets, collected in iteration order
ExtraneousOrders(m, g) == Orders(CurrentNames(m) \ DesiredNames(g))

\* lines 155-158
CategoryIndex(m) ==
    [id \in { m[k].id : k \in DOMAIN m } |-> CHOOSE k \in DOMAIN m : m[k].id = id]

Prepare ==
    /\ pc = "start"
    /\ critters' = db_critters
    /\ current_categories' = CollectCategories(db_categories, Len(db_categories))
    /\ critter_groups' = CritterGroups(db_critters)
    /\ diagnostics' = LookupFailures(db_critters, Len(db_critters))
    /\ extraneous_categories' \in ExtraneousOrders(current_categories', critter_groups')
    /\ pool0' = extraneous_categories'
    /\ category_index' = CategoryIndex(current_categories')
    /\ i' = 1
    /\ pc' = "loop"
    /\ UNCHANGED <<inputs, resolver, plan, observed, reported, run, first>>

\* ---------------------------------------------------------------- the loop

InLoop == pc = "loop" /\ i <= Len(critters)
critter == critters[i]

\* lines 162-166
CurrentCategory(c) ==
    IF /\ c.category # NoId
       /\ c.category \in DOMAIN category_index
       /\ category_index[c.category] \in DOMAIN current_categories
    THEN current_categories[category_index[c.category]]
    ELSE NoCategory

HasGroup(c) == c.species \in DOMAIN critter_groups

\* the key under which the category of the critter's group is looked up
DesiredKey(c) == LowerCase(critter_groups[c.species])

\* DesiredCategory looked up under the group name as it is, not lower-cased
DesiredCategoryUnnormalized(c) ==
    IF HasGroup(c) /\ critter_groups[c.species] \in DOMAIN current_categories
    THEN current_categories[critter_groups[c.species]]
    ELSE NoCategory

\* lines 167-169
DesiredCategory(c) ==
    IF HasGroup(c) /\ DesiredKey(c) \in DOMAIN current_categories
    THEN current_categories[DesiredKey(c)]
    ELSE NoCategory

PlanEntry(kind, c, from, to, old, new) ==
    [kind |-> kind, entity |-> c.id, from |-> from, to |-> to, oldName |-> old, newName |-> new]

Observation(c) ==
    [cc |-> CurrentCategory(c).id, dc |-> DesiredCategory(c).id,
     pool |-> Len(extraneous_categories)]

Observe(c) == [x \in (DOMAIN observed) \cup {c.id} |-> IF x = c.id THEN Observation(c) ELSE observed[x]]

\* line 161: a critter without species is passed over
SkipNoSpecies ==
    /\ InLoop
    /\ critter.species = NoName
    /\ i' = i + 1
    /\ UNCHANGED <<inputs, resolver, pc, critters, current_categories, critter_groups,
                   extraneous_categories, category_index, plan, diagnostics,
                   observed, pool0, reported, run, first>>

Matching == InLoop /\ critter.species # NoName

\* ReAssigning with the two categories of the message exchanged
ReAssigningSwapped ==
    /\ Matching
    /\ CurrentCategory(critter) # NoCategory
    /\ DesiredCategory(critter) # NoCategory
    /\ CurrentCategory(critter).id # DesiredCategory(critter).id
    /\ plan' = Append(plan, PlanEntry("Reassign", critter, DesiredCategory(critter).id,
                                      CurrentCategory(critter).id, NoName, NoName))
    /\ observed' = Observe(critter)
    /\ i' = i + 1
    /\ UNCHANGED <<inputs, resolver, pc, critters, current_categories, critter_groups,
                   extraneous_categories, category_index, diagnostics, pool0,
                   reported, run, first>>

\* lines 172-188
ReAssigning ==
    /\ Matching
    /\ CurrentCategory(critter) # NoCategory
    /\ DesiredCategory(critter) # NoCategory
    /\ CurrentCategory(critter).id # DesiredCategory(critter).id
    /\ plan' = Append(plan, PlanEntry("Reassign", critter, CurrentCategory(critter).id,
                                      DesiredCategory(critter).id, NoName, NoName))
    /\ observed' = Observe(critter)
    /\ i' = i + 1
    /\ UNCHANGED <<inputs, resolver, pc, critters, current_categories, critter_groups,
                   extraneous_categories, category_index, diagnostics, pool0,
                   reported, run, first>>

\* lines 189-191
Identical ==
    /\ Matching
    /\ CurrentCategory(critter) # NoCategory
    /\ DesiredCategory(critter) # NoCategory
    /\ CurrentCategory(critter).id = DesiredCategory(critter).id
    /\ plan' = Append(plan, PlanEntry("NoOp", critter, CurrentCategory(critter).id,
                                      DesiredCategory(critter).id, NoName, NoName))
    /\ observed' = Observe(critter)
    /\ i' = i + 1
    /\ UNCHANGED <<inputs, resolver, pc, critters, current_categories, critter_groups,
                   extraneous_categories, category_index, diagnostics, pool0,
                   reported, run, first>>

\* lines 192-207
Assigning ==
    /\ Matching
    /\ CurrentCategory(critter) = NoCategory
    /\ DesiredCategory(critter) # NoCategory
    /\ plan' = Append(plan, PlanEntry("Reassign", critter, NoId,
                                      DesiredCategory(critter).id, NoName, NoName))
    /\ observed' = Observe(critter)
    /\ i' = i + 1
    /\ UNCHANGED <<inputs, resolver, pc, critters, current_categories, critter_groups,
                   extraneous_categories, category_index, diagnostics, pool0,
                   reported, run, first>>

\* Vec::pop: the last element and the rest
Last(v) == v[Len(v)]
Front(v) == SubSeq(v, 1, Len(v) - 1)

\* lines 216-218: the popped category under its new name
Renamed(c, new_name) == [id |-> c.id, name |-> new_name]

\* lines 210-212: pop() and then remove(): the category of the popped key
PoppedCategory ==
    IF /\ extraneous_categories # <<>>
       /\ Last(extraneous_categories) \in DOMAIN current_categories
    THEN current_categories[Last(extraneous_categories)]
    ELSE NoCategory

\* The pool after last() in place of pop(): the member stays
AfterPeek(v) == v

\* line 211: the pool after pop()
AfterPop(v) == IF v = <<>> THEN <<>> ELSE Front(v)

\* Rekeyed without the remove(): the category stays under its old key too
RekeyedKeepingOld(m, old_key, c, new_name) ==
    Put(m, LowerCase(new_name), Renamed(c, new_name))

\* Rekeyed with the category put back under the key it was taken from
RekeyedUnderOldKey(m, old_key, c, new_name) ==
    Put(Remove(m, old_key), old_key, Renamed(c, new_name))

\* Rekeyed without the insert(): the popped category is lost
RekeyedDropping(m, old_key, c, new_name) == Remove(m, old_key)

\* line 212, 222: the popped category leaves its key and enters the new one
Rekeyed(m, old_key, c, new_name) ==
    Put(Remove(m, old_key), LowerCase(new_name), Renamed(c, new_name))

Deficit ==
    /\ Matching
    /\ CurrentCategory(critter) # NoCategory
    /\ DesiredCategory(critter) = NoCategory

\* RenameCategory without the insert into category_index of line 223
RenameCategoryStaleIndex ==
    /\ Deficit
    /\ HasGroup(critter)
    /\ PoppedCategory # NoCategory
    /\ LET c == PoppedCategory
           new_name == critter_groups[critter.species]
       IN /\ extraneous_categories' = AfterPop(extraneous_categories)
          /\ current_categories' =
                 Rekeyed(current_categories, Last(extraneous_categories), c, new_name)
          /\ plan' = Append(plan, PlanEntry("RenameAndReuse", critter, CurrentCategory(critter).id,
                                            c.id, c.name, new_name))
    /\ observed' = Observe(critter)
    /\ i' = i + 1
    /\ UNCHANGED <<inputs, resolver, pc, critters, critter_groups, category_index, diagnostics, pool0,
                   reported, run, first>>

\* lines 208-252: a pool member is renamed to the group of the critter
RenameCategory ==
    /\ Deficit
    /\ HasGroup(critter)
    /\ PoppedCategory # NoCategory
    /\ LET c == PoppedCategory
           new_name == critter_groups[critter.species]
       IN /\ extraneous_categories' = AfterPop(extraneous_categories)
          /\ current_categories' =
                 Rekeyed(current_categories, Last(extraneous_categories), c, new_name)
          /\ category_index' = Put(category_index, c.id, LowerCase(new_name))
          /\ plan' = Append(plan, PlanEntry("RenameAndReuse", critter, CurrentCategory(critter).id,
                                            c.id, c.name, new_name))
    /\ observed' = Observe(critter)
    /\ i' = i + 1
    /\ UNCHANGED <<inputs, resolver, pc, critters, critter_groups, diagnostics, pool0,
                   reported, run, first>>

\* lines 210-214, 253-255: nothing to rename
BrandNewCategory ==
    /\ Deficit
    /\ HasGroup(critter)
    /\ PoppedCategory = NoCategory
    /\ extraneous_categories' = AfterPop(extraneous_categories)
    /\ plan' = Append(plan, PlanEntry("CreateNewCategory", critter, CurrentCategory(critter).id,
                                      NoId, NoName, critter_groups[critter.species]))
    /\ observed' = Observe(critter)
    /\ i' = i + 1
    /\ UNCHANGED <<inputs, resolver, pc, critters, current_categories, critter_groups,
                   category_index, diagnostics, pool0, reported, run, first>>

\* lines 258-261: a critter in a category whose species has no group
NoNewCategory ==
    /\ Deficit
    /\ ~HasGroup(critter)
    /\ diagnostics' = Append(diagnostics, [kind |-> "NoNewCategory", species |-> critter.species])
    /\ observed' = Observe(critter)
    /\ i' = i + 1
    /\ UNCHANGED <<inputs, resolver, pc, critters, current_categories, critter_groups,
                   extraneous_categories, category_index, plan, pool0, reported,
                   run, first>>

\* NewCategoryRequired taking a member of the pool with it
NewCategoryRequiredPopping ==
    /\ Matching
    /\ CurrentCategory(critter) = NoCategory
    /\ DesiredCategory(critter) = NoCategory
    /\ HasGroup(critter)
    /\ plan' = Append(plan, PlanEntry("CreateNewCategory", critter, NoId, NoId, NoName,
                                      critter_groups[critter.species]))
    /\ extraneous_categories' = AfterPop(extraneous_categories)
    /\ observed' = Observe(critter)
    /\ i' = i + 1
    /\ UNCHANGED <<inputs, resolver, pc, critters, current_categories, critter_groups,
                   category_index, diagnostics, pool0, reported, run, first>>

\* lines 263-266: a critter without category whose group has no category
NewCategoryRequired ==
    /\ Matching
    /\ CurrentCategory(critter) = NoCategory
    /\ DesiredCategory(critter) = NoCategory
    /\ HasGroup(critter)
    /\ plan' = Append(plan, PlanEntry("CreateNewCategory", critter, NoId, NoId, NoName,
                                      critter_groups[critter.species]))
    /\ observed' = Observe(critter)
    /\ i' = i + 1
    /\ UNCHANGED <<inputs, resolver, pc, critters, current_categories, critter_groups,
                   extraneous_categories, category_index, diagnostics, pool0,
                   reported, run, first>>

\* line 264: unwrap() of a group that is not there panics
UnwrapPanic ==
    /\ Matching
    /\ CurrentCategory(critter) = NoCategory
    /\ DesiredCategory(critter) = NoCategory
    /\ ~HasGroup(critter)
    /\ pc' = "panicked"
    /\ observed' = Observe(critter)
    /\ UNCHANGED <<inputs, resolver, critters, current_categories, critter_groups,
                   extraneous_categories, category_index, i, plan, diagnostics,
                   pool0, reported, run, first>>

\* line 271: the rest of the pool is printed
Finish ==
    /\ pc = "loop"
    /\ i > Len(critters)
    /\ reported' = extraneous_categories
    /\ pc' = "done"
    /\ UNCHANGED <<inputs, resolver, critters, current_categories, critter_groups,
                   extraneous_categories, category_index, i, plan, diagnostics,
                   observed, pool0, run, first>>

Next ==
    \/ Prepare
    \/ SkipNoSpecies
    \/ ReAssigning
    \/ Identical
    \/ Assigning
    \/ RenameCategory
    \/ BrandNewCategory
    \/ NoNewCategory
    \/ NewCategoryRequired
    \/ UnwrapPanic
    \/ Finish

Spec == Init /\ [][Next]_vars

\* ------------------------------------------------------------ a second run

\* The state of a run that has not loaded anything yet
Fresh ==
    /\ pc' = "start"
    /\ critters' = <<>>
    /\ current_categories' = EmptyMap
    /\ critter_groups' = KeyMap
    /\ extraneous_categories' = <<>>
    /\ category_index' = <<>>
    /\ i' = 1
    /\ plan' = <<>>
    /\ diagnostics' = <<>>
    /\ observed' = <<>>
    /\ pool0' = <<>>
    /\ reported' = <<>>
    /\ run' = 2

\* The command is run once more on the catalog as it is
Rerun ==
    /\ pc = "done"
    /\ run = 1
    /\ first' = [plan |-> plan, pool |-> reported]
    /\ Fresh
    /\ UNCHANGED <<inputs, resolver>>

SetCategory(rows, id, cat) ==
    [rows EXCEPT ![id] = [id |-> rows[id].id, species |-> rows[id].species, category |-> cat]]

SetName(rows, id, name) == [rows EXCEPT ![id] = [id |-> rows[id].id, name |-> name]]

\* The rows whose name has the key of the given name
Named(rows, name) ==
    { k \in DOMAIN rows : rows[k].name # NoName /\ LowerCase(rows[k].name) = LowerCase(name) }

Newest(S) == CHOOSE k \in S : \A j \in S : j <= k

\* One entry of the plan carried out on the catalog: the updates of lines
\* 178-187, 197-206 and 235-251, and for CreateNewCategory a category of that
\* name, made unless the catalog has one
ApplyEntry(db, e) ==
    CASE e.kind = "NoOp" -> db
      [] e.kind = "Reassign" ->
            [cats |-> db.cats, crit |-> SetCategory(db.crit, e.entity, e.to)]
      [] e.kind = "RenameAndReuse" ->
            [cats |-> SetName(db.cats, e.to, e.newName),
             crit |-> SetCategory(db.crit, e.entity, e.to)]
      [] e.kind = "CreateNewCategory" ->
            IF Named(db.cats, e.newName) # {}
            THEN [cats |-> db.cats,
                  crit |-> SetCategory(db.crit, e.entity, Newest(Named(db.cats, e.newName)))]
            ELSE [cats |-> Append(db.cats, [id |-> Len(db.cats) + 1, name |-> e.newName]),
                  crit |-> SetCategory(db.crit, e.entity, Len(db.cats) + 1)]

RECURSIVE ApplyEntries(_, _, _)
ApplyEntries(db, entries, n) ==
    IF n = 0 THEN db ELSE ApplyEntry(ApplyEntries(db, entries, n - 1), entries[n])

\* The plan of the first run is carried out, entry by entry
ApplyPlan ==
    /\ pc = "done"
    /\ run = 1
    /\ LET db == ApplyEntries([cats |-> db_categories, crit |-> db_critters], plan, Len(plan))
       IN /\ db_categories' = db.cats
          /\ db_critters' = db.crit
    /\ first' = [plan |-> plan, pool |-> reported]
    /\ Fresh
    /\ UNCHANGED <<taxa, resolver>>

NextApplied == Next \/ ApplyPlan
SpecApplied == Init /\ [][NextApplied]_vars

NextRerun == Next \/ Rerun
SpecRerun == Init /\ [][NextRerun]_vars

\* ------------------------------------------------------------ the lookups

\* lines 13-16 and 121: the species of the critters that have one, in catalog
\* order, a name as often as critters have it
RECURSIVE SpeciesList(_, _)
SpeciesList(rows, n) ==
    IF n = 0 THEN <<>>
    ELSE IF rows[n].species = NoName THEN SpeciesList(rows, n - 1)
         ELSE Append(SpeciesList(rows, n - 1), rows[n].species)

Resolved(c, n) == c[n] \notin {"absent", "pending"}

\* A cache that does not remember the requests in flight
MarkPendingNever(c, n) == c

\* The first request for a name marks the name as in flight
MarkPending(c, n) == [c EXCEPT ![n] = "pending"]

\* The answer of the external lookup is kept, a failure as well as a success
Keep(c, n, v) == [c EXCEPT ![n] = v]

\* lines 10-11 and 104-106: the connection or a query fails, `?` returns the error
LoadFailed ==
    /\ rpc = "start"
    /\ rpc' = "returned_err"
    /\ UNCHANGED <<inputs, reconciler, cmd, priming, cache, calls, queue, workers, ri,
                   reads, warnings, changesets>>

\* lines 10-18: diff_critters loads the critters and calls cache_species with
\* their species
StartPriming ==
    /\ rpc = "start"
    /\ cmd = "diff_critters"
    /\ queue' = SpeciesList(db_critters, Len(db_critters))
    /\ priming' = "started"
    /\ rpc' = "priming"
    /\ UNCHANGED <<inputs, reconciler, cmd, cache, calls, workers, ri, reads, warnings,
                   changesets>>

\* lines 104-121: diff_critter_categories loads the critters and the categories
\* and goes on to resolve the species critter by critter
StartGrouping ==
    /\ rpc = "start"
    /\ cmd = "diff_critter_categories"
    /\ rpc' = "grouping"
    /\ UNCHANGED <<inputs, reconciler, cmd, priming, cache, calls, queue, workers, ri,
                   reads, warnings, changesets>>

\* cache_species: a free task takes the next name; nobody has asked for it, so
\* the task issues the external lookup
TaskMiss(w) ==
    /\ rpc = "priming"
    /\ workers[w] = Idle
    /\ queue # <<>>
    /\ cache[Head(queue)] = "absent"
    /\ cache' = MarkPending(cache, Head(queue))
    /\ calls' = [calls EXCEPT ![Head(queue)] = @ + 1]
    /\ workers' = [workers EXCEPT ![w] = [st |-> "fetch", s |-> Head(queue)]]
    /\ queue' = Tail(queue)
    /\ UNCHANGED <<inputs, reconciler, cmd, rpc, priming, ri, reads, warnings, changesets>>

\* cache_species: the name is in flight, the task joins the lookup of the other
TaskJoin(w) ==
    /\ rpc = "priming"
    /\ workers[w] = Idle
    /\ queue # <<>>
    /\ cache[Head(queue)] = "pending"
    /\ workers' = [workers EXCEPT ![w] = [st |-> "wait", s |-> Head(queue)]]
    /\ queue' = Tail(queue)
    /\ UNCHANGED <<inputs, reconciler, cmd, rpc, priming, cache, calls, ri, reads,
                   warnings, changesets>>

\* cache_species: the name has its answer already
TaskHit(w) ==
    /\ rpc = "priming"
    /\ workers[w] = Idle
    /\ queue # <<>>
    /\ Resolved(cache, Head(queue))
    /\ queue' = Tail(queue)
    /\ UNCHANGED <<inputs, reconciler, cmd, rpc, priming, cache, calls, workers, ri, reads,
                   warnings, changesets>>

\* The external lookup of a task answers
FetchDone(w) ==
    /\ workers[w].st = "fetch"
    /\ cache' = Keep(cache, workers[w].s, taxa[workers[w].s])
    /\ workers' = [workers EXCEPT ![w] = Idle]
    /\ UNCHANGED <<inputs, reconciler, cmd, rpc, priming, calls, queue, ri, reads,
                   warnings, changesets>>

\* The lookup a task has joined has answered
WaitDone(w) ==
    /\ workers[w].st = "wait"
    /\ Resolved(cache, workers[w].s)
    /\ workers' = [workers EXCEPT ![w] = Idle]
    /\ UNCHANGED <<inputs, reconciler, cmd, rpc, priming, cache, calls, queue, ri, reads,
                   warnings, changesets>>

AllJoined == queue = <<>> /\ \A w \in Workers : workers[w] = Idle

\* line 18: cache_species returns Ok once every task is done
PrimingJoined ==
    /\ rpc = "priming"
    /\ AllJoined
    /\ priming' = "joined"
    /\ rpc' = "loop"
    /\ UNCHANGED <<inputs, reconciler, cmd, cache, calls, queue, workers, ri, reads,
                   warnings, changesets>>

\* line 18: cache_species returns an error, `?` returns it
PrimingFailed ==
    /\ rpc = "priming"
    /\ AllJoined
    /\ rpc' = "returned_err"
    /\ UNCHANGED <<inputs, reconciler, cmd, priming, cache, calls, queue, workers, ri,
                   reads, warnings, changesets>>

\* get_taxon_by_name: the answer kept for the name; a name without one is
\* looked up first and its answer kept
Answer(n) == IF Resolved(cache, n) THEN cache[n] ELSE taxa[n]

GetTaxonByName(n) ==
    /\ cache' = IF Resolved(cache, n) THEN cache ELSE Keep(cache, n, taxa[n])
    /\ calls' = IF Resolved(cache, n) THEN calls ELSE [calls EXCEPT ![n] = @ + 1]

\* What a call of get_taxon_by_name for a critter was and gave
Read(c) ==
    [critter |-> c.id, species |-> c.species, priming |-> priming,
     called |-> ~Resolved(cache, c.species), value |-> Answer(c.species)]

Entity == db_critters[ri]

\* line 21: a critter without a species is passed over
NoSpecies ==
    /\ rpc = "loop"
    /\ ri <= Len(db_critters)
    /\ Entity.species = NoName
    /\ ri' = ri + 1
    /\ UNCHANGED <<inputs, reconciler, cmd, rpc, priming, cache, calls, queue, workers,
                   reads, warnings, changesets>>

\* A failed lookup that ends the command in place of the critter
TaxonFailedAborting ==
    /\ rpc = "loop"
    /\ ri <= Len(db_critters)
    /\ Entity.species # NoName
    /\ Answer(Entity.species) = LookupError
    /\ GetTaxonByName(Entity.species)
    /\ reads' = Append(reads, Read(Entity))
    /\ rpc' = "returned_err"
    /\ UNCHANGED <<inputs, reconciler, cmd, priming, queue, workers, ri, warnings,
                   changesets>>

\* lines 23-31: the lookup fails, the failure is logged and the loop continues
TaxonFailed ==
    /\ rpc = "loop"
    /\ ri <= Len(db_critters)
    /\ Entity.species # NoName
    /\ Answer(Entity.species) = LookupError
    /\ GetTaxonByName(Entity.species)
    /\ reads' = Append(reads, Read(Entity))
    /\ warnings' = Append(warnings, Entity.id)
    /\ ri' = ri + 1
    /\ UNCHANGED <<inputs, reconciler, cmd, rpc, priming, queue, workers, changesets>>

\* lines 23-24 and 34-90: the lookup succeeds, the changeset of the critter is
\* computed
TaxonFound ==
    /\ rpc = "loop"
    /\ ri <= Len(db_critters)
    /\ Entity.species # NoName
    /\ Answer(Entity.species) # LookupError
    /\ GetTaxonByName(Entity.species)
    /\ reads' = Append(reads, Read(Entity))
    /\ changesets' = Append(changesets, Entity.id)
    /\ ri' = ri + 1
    /\ UNCHANGED <<inputs, reconciler, cmd, rpc, priming, queue, workers, warnings>>

\* line 97: Ok(()) after the last critter
Returned ==
    /\ rpc = "loop"
    /\ ri > Len(db_critters)
    /\ rpc' = "returned_ok"
    /\ UNCHANGED <<inputs, reconciler, cmd, priming, cache, calls, queue, workers, ri,
                   reads, warnings, changesets>>

\* line 121: the stream has the species of the critters that have one
GroupSkipped ==
    /\ rpc = "grouping"
    /\ ri <= Len(db_critters)
    /\ Entity.species = NoName
    /\ ri' = ri + 1
    /\ UNCHANGED <<inputs, reconciler, cmd, rpc, priming, cache, calls, queue, workers,
                   reads, warnings, changesets>>

\* lines 122-135: one species after the other is resolved with get_taxon_by_name
GroupLookup ==
    /\ rpc = "grouping"
    /\ ri <= Len(db_critters)
    /\ Entity.species # NoName
    /\ GetTaxonByName(Entity.species)
    /\ reads' = Append(reads, Read(Entity))
    /\ ri' = ri + 1
    /\ UNCHANGED <<inputs, reconciler, cmd, rpc, priming, queue, workers, warnings,
                   changesets>>

\* lines 136-137: the stream is collected into critter_groups
Grouped ==
    /\ rpc = "grouping"
    /\ ri > Len(db_critters)
    /\ rpc' = "grouped"
    /\ UNCHANGED <<inputs, reconciler, cmd, priming, cache, calls, queue, workers, ri,
                   reads, warnings, changesets>>

\* A command is started on a catalog of critters
InitResolver ==
    /\ db_categories = <<>>
    /\ db_critters \in CritterRows(0)
    /\ taxa \in [Species -> TaxonAnswers]
    /\ Canonical(db_critters, taxa)
    /\ \E c \in Commands : ResolverAt(c, "start")
    /\ pc = "start"
    /\ critters = <<>>
    /\ current_categories = EmptyMap
    /\ critter_groups = KeyMap
    /\ extraneous_categories = <<>>
    /\ category_index = <<>>
    /\ i = 1
    /\ plan = <<>>
    /\ diagnostics = <<>>
    /\ observed = <<>>
    /\ pool0 = <<>>
    /\ reported = <<>>
    /\ run = 1
    /\ first = NoFirst

NextResolver ==
    \/ LoadFailed
    \/ StartPriming
    \/ StartGrouping
    \/ \E w \in Workers : TaskMiss(w)
    \/ \E w \in Workers : TaskJoin(w)
    \/ \E w \in Workers : TaskHit(w)
    \/ \E w \in Workers : FetchDone(w)
    \/ \E w \in Workers : WaitDone(w)
    \/ PrimingJoined
    \/ PrimingFailed
    \/ NoSpecies
    \/ TaxonFailed
    \/ TaxonFound
    \/ Returned
    \/ GroupSkipped
    \/ GroupLookup
    \/ Grouped

SpecResolver == InitResolver /\ [][NextResolver]_vars

\* ------------------------------------------------------------- properties

Entries(kind) == { k \in DOMAIN plan : plan[k].kind = kind }
RemoveAt(s, k) == SubSeq(s, 1, k - 1) \o SubSeq(s, k + 1, Len(s))
Group(c) == critter_groups[c.species]

\* The entry the decision table gives a critter whose desired category exists
ExistingCategoryEntry(c) ==
    LET cc == CurrentCategory(c)
        dc == DesiredCategory(c)
    IN IF cc # NoCategory /\ cc.id = dc.id
       THEN PlanEntry("NoOp", c, cc.id, dc.id, NoName, NoName)
       ELSE IF cc # NoCategory
            THEN PlanEntry("Reassign", c, cc.id, dc.id, NoName, NoName)
            ELSE PlanEntry("Reassign", c, NoId, dc.id, NoName, NoName)

\* C1: a critter whose group resolves and whose desired category exists gets
\* NoOp when its current category has the id of the desired one, Reassign from
\* the current to the desired category when it has another current category,
\* and Reassign from no category when it has none.
C1_DecisionTable ==
    [][ (Matching /\ HasGroup(critter) /\ DesiredCategory(critter) # NoCategory)
          => plan' = Append(plan, ExistingCategoryEntry(critter)) ]_vars

C1_Witness ==
    \E j, k \in DOMAIN plan :
        /\ plan[j].kind = "Reassign" /\ plan[j].from # NoId /\ plan[j].from # plan[j].to
        /\ plan[k].kind = "Reassign" /\ plan[k].from = NoId

\* C2: when a critter has a current category, its group has no category and
\* the pool is not empty, exactly one member leaves the pool, the entry is
\* RenameAndReuse with the id and the former name of that member and the
\* group as new name, and the category moves to the key of the new name.
C2_RenameAndReuse ==
    [][ (Deficit /\ HasGroup(critter) /\ extraneous_categories # <<>>)
          => \E k \in DOMAIN extraneous_categories :
                LET member == extraneous_categories[k]
                    new_key == LowerCase(Group(critter))
                IN /\ member \in DOMAIN current_categories
                   /\ extraneous_categories' = RemoveAt(extraneous_categories, k)
                   /\ plan' = Append(plan,
                         PlanEntry("RenameAndReuse", critter, CurrentCategory(critter).id,
                                   current_categories[member].id,
                                   current_categories[member].name, Group(critter)))
                   /\ member \notin DOMAIN current_categories'
                   /\ DOMAIN current_categories' =
                          ((DOMAIN current_categories) \ {member}) \cup {new_key}
                   /\ current_categories'[new_key] =
                          [id |-> current_categories[member].id, name |-> Group(critter)]
                   /\ category_index'[current_categories[member].id] = new_key ]_vars

C2_Witness ==
    /\ Len(pool0) = 2
    /\ \E k \in Entries("RenameAndReuse") :
          /\ plan[k].newName = "Mollusk"
          /\ "mollusk" \in DOMAIN current_categories
          /\ current_categories["mollusk"].id = plan[k].to

CreateCase(c) ==
    /\ DesiredCategory(c) = NoCategory
    /\ \/ CurrentCategory(c) = NoCategory
       \/ extraneous_categories = <<>>

\* C3: for a critter whose group resolves, CreateNewCategory is the entry
\* exactly when the group has no category and the critter has no current
\* category or the pool is empty; the step leaves the pool, the categories
\* and the index as they are.  No other step emits CreateNewCategory.
C3_CreateNewCategory ==
    [][ LET created == /\ Len(plan') = Len(plan) + 1
                       /\ plan'[Len(plan')].kind = "CreateNewCategory"
        IN /\ created => InLoop
           /\ InLoop =>
                /\ created <=> (Matching /\ HasGroup(critter) /\ CreateCase(critter))
                /\ created =>
                     /\ plan'[Len(plan')].entity = critter.id
                     /\ plan'[Len(plan')].newName = Group(critter)
                     /\ extraneous_categories' = extraneous_categories
                     /\ current_categories' = current_categories
                     /\ category_index' = category_index ]_vars

C3_Witness ==
    /\ \E k \in Entries("CreateNewCategory") :
          observed[plan[k].entity].cc = NoId /\ observed[plan[k].entity].pool > 0
    /\ extraneous_categories = pool0

Failed(c) == c.species # NoName /\ taxa[c.species] \in {LookupError, GroupError}
HasEntry(c) == \E k \in DOMAIN plan : plan[k].entity = c.id
HasDiagnostic(c) ==
    /\ c.species # NoName
    /\ \E k \in DOMAIN diagnostics : diagnostics[k].species = c.species
EntryOf(id) == plan[CHOOSE k \in DOMAIN plan : plan[k].entity = id]

\* C4: when the lookup or the classification of a critter's species fails, the
\* run still finishes normally; that critter has a diagnostic and no entry,
\* and every other critter with a species has its entry.
C4_LookupFailureIsolated ==
    /\ pc # "panicked"
    /\ pc = "done" =>
          \A k \in DOMAIN critters :
              IF Failed(critters[k])
              THEN HasDiagnostic(critters[k]) /\ ~HasEntry(critters[k])
              ELSE critters[k].species # NoName => HasEntry(critters[k])

\* C5: after a completed run every critter of the catalog has an entry in the
\* plan or a diagnostic that names it.
C5_NoSilentDrop ==
    pc = "done" =>
        \A k \in DOMAIN critters : HasEntry(critters[k]) \/ HasDiagnostic(critters[k])

\* C6: the pool computed before the loop is as large as the number of
\* RenameAndReuse entries plus the pool that is left, throughout the loop and
\* in the pool reported at the end.
C6_PoolConservation ==
    /\ pc \in {"loop", "done", "panicked"} =>
          Len(pool0) = Cardinality(Entries("RenameAndReuse")) + Len(extraneous_categories)
    /\ pc = "done" =>
          Len(pool0) = Cardinality(Entries("RenameAndReuse")) + Len(reported)

C6_Witness ==
    /\ pc = "done"
    /\ Len(pool0) = 2
    /\ Cardinality(Entries("RenameAndReuse")) = 1
    /\ Len(reported) = 1

Processed == { id \in DOMAIN critters : id \in DOMAIN observed /\ HasGroup(critters[id]) /\ id < i }
KeyOf(id) == LowerCase(Group(critters[id]))
ReusesFor(n) == { e \in Entries("RenameAndReuse") : LowerCase(plan[e].newName) = n }
CreationsFor(n) == { e \in Entries("CreateNewCategory") : LowerCase(plan[e].newName) = n }
StartCategories == CollectCategories(db_categories, Len(db_categories))

\* C7 as claimed: two critters desiring the same group, for which no category
\* exists at the start, with a pool that is not empty: one RenameAndReuse for
\* that name, the second critter gets Reassign to the renamed category, and
\* there is no CreateNewCategory for that name; whatever their categories.
C7_CollapsingAnyCategory ==
    pc = "done" =>
        \A j, k \in Processed :
            (/\ j < k
             /\ KeyOf(j) = KeyOf(k)
             /\ KeyOf(j) \notin DOMAIN StartCategories
             /\ pool0 # <<>>)
            => /\ Cardinality(ReusesFor(KeyOf(j))) = 1
               /\ EntryOf(k).kind = "Reassign"
               /\ \A e \in ReusesFor(KeyOf(j)) : EntryOf(k).to = plan[e].to
               /\ CreationsFor(KeyOf(j)) = {}

\* C7 as amended: of two critters desiring the same group, if the first has a
\* current category, finds no category for the group and finds the pool not
\* empty, then it gets the one RenameAndReuse for that name and the second
\* resolves against the renamed category: NoOp when that is the category it is
\* in, Reassign otherwise; no CreateNewCategory for the name follows the reuse.
C7_Collapsing ==
    \A j, k \in Processed :
        (/\ j < k
         /\ KeyOf(j) = KeyOf(k)
         /\ observed[j].cc # NoId
         /\ observed[j].dc = NoId
         /\ observed[j].pool > 0)
        => /\ EntryOf(j).kind = "RenameAndReuse"
           /\ Cardinality(ReusesFor(KeyOf(j))) = 1
           /\ EntryOf(k).to = EntryOf(j).to
           /\ EntryOf(k).kind = (IF observed[k].cc = EntryOf(j).to THEN "NoOp" ELSE "Reassign")
           /\ \A e \in CreationsFor(KeyOf(j)) : plan[e].entity < j

C7_Witness ==
    /\ pc = "done"
    /\ Len(plan) = 2
    /\ plan[1].kind = "RenameAndReuse"
    /\ plan[2].kind = "Reassign"
    /\ plan[2].from # NoId
    /\ plan[2].to = plan[1].to

TableCoverage ==
    /\ db_categories = <<[id |-> 1, name |-> "Fish"], [id |-> 2, name |-> "Coral"]>>
    /\ db_critters = <<[id |-> 1, species |-> "X", category |-> 1],
                       [id |-> 2, species |-> "Y", category |-> NoId]>>
    /\ taxa = [s \in Species |-> IF s = "X" THEN "Fish" ELSE "Mollusk"]

\* C8 as claimed: in the table coverage scenario A gets NoOp, Coral is the
\* pool and B gets RenameAndReuse of category 2 from Coral to Mollusk; a
\* critter without category whose group has no category is served by a rename
\* whenever the pool is not empty.
C8_AbsentCategoryReuses ==
    /\ (TableCoverage /\ pc = "done") =>
          /\ pool0 = <<"coral">>
          /\ plan = <<PlanEntry("NoOp", critters[1], 1, 1, NoName, NoName),
                      PlanEntry("RenameAndReuse", critters[2], NoId, 2, "Coral", "Mollusk")>>
    /\ \A id \in Processed :
          (observed[id].cc = NoId /\ observed[id].dc = NoId /\ observed[id].pool > 0)
          => EntryOf(id).kind = "RenameAndReuse"

\* C8 as amended: in the table coverage scenario A gets NoOp, Coral is the
\* pool, B gets CreateNewCategory for Mollusk and Coral is reported as left
\* over; a critter without category whose group has no category gets
\* CreateNewCategory and leaves the pool as it is, also when it is not empty.
C8_AbsentCategoryCreates ==
    [][ /\ (TableCoverage /\ pc = "loop" /\ pc' = "done") =>
              /\ pool0 = <<"coral">>
              /\ plan' = <<PlanEntry("NoOp", critters[1], 1, 1, NoName, NoName),
                           PlanEntry("CreateNewCategory", critters[2], NoId, NoId,
                                     NoName, "Mollusk")>>
              /\ reported' = <<"coral">>
        /\ (/\ Matching
            /\ HasGroup(critter)
            /\ CurrentCategory(critter) = NoCategory
            /\ DesiredCategory(critter) = NoCategory
            /\ extraneous_categories # <<>>) =>
              /\ plan' = Append(plan, PlanEntry("CreateNewCategory", critter, NoId, NoId,
                                                NoName, Group(critter)))
              /\ extraneous_categories' = extraneous_categories
              /\ current_categories' = current_categories ]_vars

C8_Witness ==
    /\ TableCoverage
    /\ pc = "done"
    /\ Len(plan) = 2
    /\ observed[2].pool = 1

Members(v) == { v[k] : k \in DOMAIN v }

\* C9: when the plan of a first run has been carried out on the catalog, a
\* second run with the same taxonomy answers emits only NoOp and takes nothing
\* from the pool.
C9_Idempotence ==
    run = 2 =>
        /\ \A k \in DOMAIN plan : plan[k].kind = "NoOp"
        /\ extraneous_categories = pool0

\* C10: a second run on the same catalog with the same taxonomy answers ends
\* with the plan and the pool of the first.
C10_Reproducible ==
    (run = 2 /\ pc = "done") =>
        /\ plan = first.plan
        /\ Members(reported) = Members(first.pool)

Ids(m) == { m[k].id : k \in DOMAIN m }

\* C13: no step of the pass creates or deletes a category: the ids held in
\* current_categories stay the same; a step that emits NoOp, Reassign or
\* CreateNewCategory leaves the map, the index and the pool as they are; and
\* what is printed at the end is the rest of the pool, each member the key of
\* a category that still has the id and the name it had at the start.
C13_NoCategoryCreatedOrDeleted ==
    [][ /\ pc = "loop" => Ids(current_categories') = Ids(current_categories)
        /\ (/\ pc = "loop"
            /\ Len(plan') = Len(plan) + 1
            /\ Last(plan').kind \in {"NoOp", "Reassign", "CreateNewCategory"}) =>
              /\ current_categories' = current_categories
              /\ category_index' = category_index
              /\ extraneous_categories' = extraneous_categories
        /\ (pc = "loop" /\ pc' = "done") =>
              /\ reported' = extraneous_categories
              /\ \A k \in DOMAIN reported' :
                    /\ reported'[k] \in DOMAIN StartCategories
                    /\ reported'[k] \in DOMAIN current_categories
                    /\ current_categories[reported'[k]] = StartCategories[reported'[k]]
                    /\ reported'[k] = LowerCase(StartCategories[reported'[k]].name) ]_vars

C13_Witness ==
    /\ pc = "done"
    /\ Len(reported) = 1
    /\ Entries("RenameAndReuse") # {}
    /\ Entries("Reassign") # {}

\* C14: after a RenameAndReuse for a group name, every critter processed later
\* whose group has the same key finds the renamed category as its desired
\* category and gets NoOp when it is in that category, Reassign to it
\* otherwise; it gets no RenameAndReuse and no CreateNewCategory.
C14_RenameSeenByLaterCritters ==
    \A e \in Entries("RenameAndReuse") :
        \A id \in Processed :
            (id > plan[e].entity /\ KeyOf(id) = LowerCase(plan[e].newName))
            => /\ observed[id].dc = plan[e].to
               /\ EntryOf(id).to = plan[e].to
               /\ EntryOf(id).kind =
                      (IF critters[id].category = plan[e].to THEN "NoOp" ELSE "Reassign")

C14_Witness ==
    /\ pc = "done"
    /\ Len(plan) = 2
    /\ plan[1].kind = "RenameAndReuse"
    /\ plan[2].kind = "NoOp"
    /\ plan[2].to = plan[1].to

Loaded == pc \in {"loop", "done", "panicked"}
Consumed == { pool0[k] : k \in (Len(extraneous_categories) + 1)..Len(pool0) }

\* C15: throughout the pass every pool member is a key of current_categories
\* and not the lower-cased group of any critter; the pool has no duplicates
\* and is always a prefix of the pool computed before the loop; a member that
\* was taken is in neither the pool nor the map any more, and no category is
\* renamed twice.
C15_PoolInvariant ==
    Loaded =>
        /\ \A k \in DOMAIN extraneous_categories :
              /\ extraneous_categories[k] \in DOMAIN current_categories
              /\ extraneous_categories[k] \notin DesiredNames(critter_groups)
        /\ \A j, k \in DOMAIN extraneous_categories :
              extraneous_categories[j] = extraneous_categories[k] => j = k
        /\ Len(extraneous_categories) <= Len(pool0)
        /\ extraneous_categories = SubSeq(pool0, 1, Len(extraneous_categories))
        /\ \A key \in Consumed :
              /\ key \notin Members(extraneous_categories)
              /\ key \notin DOMAIN current_categories
        /\ \A e, f \in Entries("RenameAndReuse") : plan[e].to = plan[f].to => e = f

C15_Witness ==
    /\ pc = "done"
    /\ Len(pool0) = 2
    /\ extraneous_categories = <<>>
    /\ Cardinality(Entries("RenameAndReuse")) = 2

\* C17: throughout the pass the index and the map agree: every indexed id
\* leads to a key of the map that holds the category of that id, every
\* category of the map is indexed under its id with its own key, no two keys
\* hold the same category, and the map holds as many categories as at the
\* start (a rename overwrites none).
C17_IndexConsistent ==
    Loaded =>
        /\ \A id \in DOMAIN category_index :
              /\ category_index[id] \in DOMAIN current_categories
              /\ current_categories[category_index[id]].id = id
        /\ \A k \in DOMAIN current_categories :
              /\ current_categories[k].id \in DOMAIN category_index
              /\ category_index[current_categories[k].id] = k
              /\ LowerCase(current_categories[k].name) = k
        /\ \A j, k \in DOMAIN current_categories :
              current_categories[j].id = current_categories[k].id => j = k
        /\ Cardinality(DOMAIN current_categories) = Cardinality(DOMAIN StartCategories)
        /\ Ids(current_categories) = Ids(StartCategories)

C17_Witness ==
    /\ pc = "done"
    /\ Entries("RenameAndReuse") # {}
    /\ Cardinality(DOMAIN current_categories) = 2
    /\ "mollusk" \in DOMAIN current_categories

PlacedKinds == {"NoOp", "Reassign", "RenameAndReuse"}

\* C18: the category in which a NoOp, Reassign or RenameAndReuse entry leaves
\* its critter is, in the map as it is now and at the end, a category whose
\* lower-cased name is the lower-cased group of that critter; no later rename
\* takes it away.
C18_PlacedInDesiredCategory ==
    Loaded =>
        \A e \in DOMAIN plan :
            plan[e].kind \in PlacedKinds =>
                /\ plan[e].to \in DOMAIN category_index
                /\ category_index[plan[e].to] = KeyOf(plan[e].entity)
                /\ KeyOf(plan[e].entity) \in DOMAIN current_categories
                /\ current_categories[KeyOf(plan[e].entity)].id = plan[e].to
                /\ LowerCase(current_categories[KeyOf(plan[e].entity)].name)
                      = KeyOf(plan[e].entity)

C18_Witness ==
    /\ pc = "done"
    /\ Len(plan) = 2
    /\ plan[1].kind = "Reassign"
    /\ plan[2].kind = "RenameAndReuse"
    /\ plan[1].to # plan[2].to

\* The name of the category row that a critter refers to, in a list of rows
RowName(rows, id) == IF id \in DOMAIN rows THEN rows[id].name ELSE NoName

\* The name a category id has in the map after the renames of the pass
NameNow(id) ==
    IF id \in DOMAIN category_index /\ category_index[id] \in DOMAIN current_categories
    THEN current_categories[category_index[id]].name
    ELSE RowName(db_categories, id)

\* C19: a critter that gets no entry (no species, or no group for its species)
\* keeps the name of its category: at the end of the run the category it is
\* in has the name it had at the start.
C19_UnclassifiedCategoryKept ==
    pc = "done" =>
        \A k \in DOMAIN critters :
            (~HasEntry(critters[k]) /\ critters[k].category # NoId)
            => NameNow(critters[k].category) = RowName(db_categories, critters[k].category)

\* The species some critter of the catalog has
Referenced == { db_critters[k].species : k \in DOMAIN db_critters } \ {NoName}

\* The lookups of the command are over
LookupsOver == rpc \in {"loop", "returned_ok", "grouped"}

\* C11: for a species any number of critters share, the external lookup is
\* issued at most once however the priming tasks interleave, and exactly once
\* by the time the lookups of the run are over; a reader that comes after the
\* answer is there gets that answer, a failure as well as a success, and issues
\* no lookup
C11_AtMostOnceLookup ==
    /\ \A s \in Species : calls[s] <= 1
    /\ LookupsOver => \A s \in Referenced : calls[s] = 1 /\ cache[s] = taxa[s]
    /\ \A k \in DOMAIN reads :
          /\ reads[k].value = taxa[reads[k].species]
          /\ reads[k].called =>
                /\ reads[k].priming # "joined"
                /\ \A j \in 1..(k - 1) : reads[j].species # reads[k].species

\* Two priming tasks have the same species at the same time: one looks it up,
\* the other waits for that lookup
C11_Witness ==
    /\ cmd = "diff_critters"
    /\ \E v, w \in Workers :
          /\ workers[v].st = "fetch"
          /\ workers[w].st = "wait"
          /\ workers[v].s = workers[w].s
          /\ calls[workers[v].s] = 1

\* C12: in a run of either command no call of get_taxon_by_name for a critter
\* comes before a priming pass has been started and joined
C12_PrimedBeforeFirstRead ==
    \A k \in DOMAIN reads : reads[k].priming = "joined"

Ran(seq) == { seq[k] : k \in DOMAIN seq }

\* C16: in diff_critters a critter whose lookup fails is logged and gets no
\* changeset, the critters after it are processed all the same and the command
\* returns Ok; an error is returned only before the first critter is looked at,
\* by the load or by the priming call
C16_LookupFailureSkipsOneCritter ==
    cmd = "diff_critters" =>
        /\ rpc = "returned_err" => reads = <<>> /\ warnings = <<>> /\ changesets = <<>>
        /\ Ran(warnings) \cap Ran(changesets) = {}
        /\ rpc = "loop" =>
              \A k \in 1..(ri - 1) :
                  LET c == db_critters[k]
                  IN /\ c.id \in Ran(warnings) <=> (c.species # NoName /\ taxa[c.species] = LookupError)
                     /\ c.id \in Ran(changesets) <=> (c.species # NoName /\ taxa[c.species] # LookupError)
        /\ rpc = "returned_ok" =>
              \A k \in DOMAIN db_critters :
                  LET c == db_critters[k]
                  IN /\ c.id \in Ran(warnings) <=> (c.species # NoName /\ taxa[c.species] = LookupError)
                     /\ c.id \in Ran(changesets) <=> (c.species # NoName /\ taxa[c.species] # LookupError)

\* The lookup of the first critter has failed, the second critter has its
\* changeset and the command has returned Ok
C16_Witness ==
    /\ cmd = "diff_critters"
    /\ rpc = "returned_ok"
    /\ Len(db_critters) = 2
    /\ warnings = <<db_critters[1].id>>
    /\ changesets = <<db_critters[2].id>>

====
